---- MODULE Spec2Model ----
(***************************************************************************)
(* A model of BedrockKnowledgeBase.query (src/src/kb/bedrock.py) and of    *)
(* the PromptEngine functions it calls (src/src/prompt/engine.py).         *)
(*                                                                         *)
(* Text is a sequence of atoms.  An atom is an indivisible piece of text;  *)
(* the whitespace atoms are " " and "\n", the colon is always the atom     *)
(* ":" of its own, and every string literal of the source is cut into      *)
(* atoms the same way wherever it occurs, so that Python's ==, in,         *)
(* startswith, split(':'), strip() and lower() become equality,            *)
(* contiguous sub-sequence, prefix, cut at the first ":", trimming of      *)
(* whitespace atoms and an atom-wise map.                                  *)
(* Python's None is the one-atom text None; a dict is a record and a       *)
(* missing key is a field outside its DOMAIN.                              *)
(***************************************************************************)
EXTENDS Integers, Sequences, FiniteSets, TLC

VARIABLES
    region,              \* self.region
    kb_id,               \* self.kb_id
    model_id,            \* self.model_id
    max_tokens,          \* self.max_tokens
    temperature,         \* self.temperature, in tenths
    pc,                  \* where the current query() invocation stands
    args,                \* the arguments query() was called with
    locals,              \* question, enhanced_question, query_type, session_id
    params,              \* the request body (mutated in place by the retry loop)
    first_error,         \* e of `except ClientError as e` (bedrock.py:258)
    model_arn_attempts,  \* the alternatives enumerated after the first failure
    i,                   \* index of the alternative in flight (1-based)
    last_error,          \* last_error of the retry loop
    retry_success,       \* retry_success of the retry loop
    response,            \* the provider response the result is built from
    sent,                \* what retrieve_and_generate received in this invocation
    result,              \* what query() returned
    raised,              \* what query() raised
    search_history,      \* the rows of table search_history, in insertion order
    session,             \* the Flask session of the client (its cookie)
    http,                \* the HTTP response of the last request handled
    files,               \* the files present in UPLOAD_FOLDER
    bucket,              \* the object keys present in the S3 bucket
    request,             \* the HTTP request being handled, or handled last
    now                  \* int(time.time())

vars == <<region, kb_id, model_id, max_tokens, temperature, pc, args, locals, params, first_error,
          model_arn_attempts, i, last_error, retry_success, response, sent,
          result, raised, search_history, session, http, files, bucket,
          request, now>>

-----------------------------------------------------------------------------
(* Bounds *)

MaxHistory == 4
MaxSessionLen == 2
MaxQuestionLen == 3
MaxStored == 6
MaxClock == 1

-----------------------------------------------------------------------------
(* Python values *)

None == <<"None#">>

Truthy(v) == v # None /\ v # <<>>

IsSpace(a) == a \in {" ", "\n"}

RECURSIVE LStrip(_)
LStrip(s) == IF s # <<>> /\ IsSpace(Head(s)) THEN LStrip(Tail(s)) ELSE s

RECURSIVE RStrip(_)
RStrip(s) ==
    IF s # <<>> /\ IsSpace(s[Len(s)]) THEN RStrip(SubSeq(s, 1, Len(s) - 1)) ELSE s

Strip(s) == RStrip(LStrip(s))

LowerAtom(a) ==
    CASE a = "INVALID" -> "invalid"
      [] a = "Model" -> "model"
      [] a = "Identifier" -> "identifier"
      [] a = "ANTHROPIC." -> "anthropic."
      [] a = "CLAUDE-3-5-SONNET" -> "claude-3-5-sonnet"
      [] a = "-V9" -> "-v9"
      [] a = "How" -> "how"
      [] a = "What" -> "what"
      [] OTHER -> a

Lower(s) == [k \in 1..Len(s) |-> LowerAtom(s[k])]

\* sub in s
Contains(s, sub) ==
    \E k \in 0..(Len(s) - Len(sub)) : SubSeq(s, k + 1, k + Len(sub)) = sub

StartsWith(s, prefix) ==
    Len(s) >= Len(prefix) /\ SubSeq(s, 1, Len(prefix)) = prefix

\* s.split(':')[0]
RECURSIVE SplitColonFirst(_)
SplitColonFirst(s) ==
    IF s = <<>> \/ Head(s) = ":" THEN <<>> ELSE <<Head(s)>> \o SplitColonFirst(Tail(s))

\* s[:n]
Take(s, n) == IF Len(s) <= n THEN s ELSE SubSeq(s, 1, n)

\* d.get(k, default)
Get(d, k, default) == IF k \in DOMAIN d THEN d[k] ELSE default

RECURSIVE Join(_, _)
Join(sep, parts) ==
    IF parts = <<>> THEN <<>>
    ELSE IF Len(parts) = 1 THEN parts[1]
    ELSE parts[1] \o sep \o Join(sep, Tail(parts))

RECURSIVE Flatten(_)
Flatten(ss) == IF ss = <<>> THEN <<>> ELSE Head(ss) \o Flatten(Tail(ss))

-----------------------------------------------------------------------------
(* PromptEngine *)

TechnicalKeywords == {"how", "implement", "configure", "setup", "technical", "specification"}
SummaryKeywords == {"summarize", "summary", "overview", "brief"}
ComparisonKeywords == {"compare", "difference", "versus", "vs", "better"}

\* the classification with the summary keywords checked first
detect_query_type_summary_first(question) ==
    LET question_lower == Lower(question) IN
    IF \E word \in SummaryKeywords : Contains(question_lower, <<word>>) THEN <<"summary">>
    ELSE IF \E word \in TechnicalKeywords : Contains(question_lower, <<word>>) THEN <<"technical">>
    ELSE IF \E word \in ComparisonKeywords : Contains(question_lower, <<word>>) THEN <<"comparison">>
    ELSE <<"general">>

\* engine.py:184-209
detect_query_type(question) ==
    LET question_lower == Lower(question) IN
    IF \E word \in TechnicalKeywords : Contains(question_lower, <<word>>) THEN <<"technical">>
    ELSE IF \E word \in SummaryKeywords : Contains(question_lower, <<word>>) THEN <<"summary">>
    ELSE IF \E word \in ComparisonKeywords : Contains(question_lower, <<word>>) THEN <<"comparison">>
    ELSE <<"general">>

AnswerLimit == 200
RecentExchanges == 3

\* the whole history instead of its tail
LastNAll(h, n) == h

\* conversation_history[-3:]
LastN(h, n) == IF Len(h) <= n THEN h ELSE SubSeq(h, Len(h) - n + 1, Len(h))

recent_context(conversation_history) ==
    Flatten([k \in 1..Len(LastN(conversation_history, RecentExchanges)) |->
        LET item == LastN(conversation_history, RecentExchanges)[k] IN
        << <<"Previous question: ">> \o Get(item, "question", <<>>),
           <<"Previous answer: ">>
              \o Take(Get(item, "answer", <<>>), AnswerLimit) \o <<"...">> >>])

enhance_query(question, conversation_history) ==
    IF conversation_history = <<>> THEN question
    ELSE IF recent_context(conversation_history) # <<>>
         THEN <<"Context from previous conversation:", "\n">>
                  \o Join(<<"\n">>, recent_context(conversation_history))
                  \o <<"\n", "\n", "Current question: ">> \o question
         ELSE question

-----------------------------------------------------------------------------
(* Exceptions: type, and for a ClientError the Code and Message of           *)
(* e.response['Error']; for any other exception Message is str(e).           *)

Exc(type, code, message) == [type |-> type, Code |-> code, Message |-> message]

\* no exception
NoException == Exc("None", "", <<>>)

ValueError(text) == Exc("ValueError", "", <<text>>)
Exception(message) == Exc("Exception", "", message)

\* str(e)
Str(e) ==
    IF e.type = "ClientError"
    THEN <<"An error occurred (", e.Code,
           ") when calling the RetrieveAndGenerate operation: ">> \o e.Message
    ELSE e.Message

AuthCodes == {"UnrecognizedClientException", "InvalidClientTokenId", "SignatureDoesNotMatch"}

CredentialMethods ==
    <<"  1. AWS credentials file: ~/.aws/credentials",
      "  2. Environment variables: AWS_ACCESS_KEY_ID and AWS_SECRET_ACCESS_KEY",
      "  3. IAM role (if running on EC2/ECS/Lambda)",
      "  4. AWS SSO: aws sso login",
      "  5. AWS CLI: aws configure">>

helpful_msg(error_code, error_message) ==
    <<"AWS Authentication Error (", error_code, "): ">> \o error_message
        \o <<"\n", "Please configure AWS credentials using one of the following methods:", "\n">>
        \o Join(<<"\n">>, [k \in 1..Len(CredentialMethods) |-> <<CredentialMethods[k]>>])

AwsErrorText(error_code, error_message) ==
    <<"AWS Error (", error_code, "): ">> \o error_message

\* the handlers of the outer try (bedrock.py:386-407), applied to what
\* leaves the body of the try
OuterExcept(e) ==
    IF e.type = "ClientError"
    THEN IF e.Code \in AuthCodes
         THEN Exception(helpful_msg(e.Code, e.Message))
         ELSE Exception(AwsErrorText(e.Code, e.Message))
    ELSE Exception(<<"Failed to query knowledge base: ">> \o Str(e))

-----------------------------------------------------------------------------
(* Model identifiers *)

ArnPrefix == <<"arn", ":", "aws", ":", "bedrock", ":">>

\* f"arn:aws:bedrock:{self.region}::foundation-model/{m}"
FoundationModelArn(m) == ArnPrefix \o region \o <<":", ":", "foundation-model/">> \o m

\* the resolver synthesizing the identifier for every configured id
get_model_arn_always_synthesized == FoundationModelArn(model_id)

\* bedrock.py:183-198
get_model_arn ==
    IF StartsWith(model_id, ArnPrefix)
    THEN model_id
    ELSE FoundationModelArn(model_id)

alt_model == <<"anthropic.", "claude-3-5-sonnet", "-20240620-v1", ":", "0">>

\* Try 1 without the comparison against the identifier already sent
AttemptsTry1NoDedup(current_model_arn) == <<FoundationModelArn(model_id)>>

\* Try 1 (bedrock.py:285-288)
AttemptsTry1(current_model_arn) ==
    IF FoundationModelArn(model_id) # current_model_arn
    THEN <<FoundationModelArn(model_id)>>
    ELSE <<>>

\* Try 2 (bedrock.py:290-297), appended to the attempts so far
AttemptsTry2(current_model_arn, attempts) ==
    IF /\ Contains(Lower(model_id), <<"claude-3-5-sonnet">>)
       /\ alt_model # model_id
       /\ FoundationModelArn(alt_model) # current_model_arn
       /\ \A k \in 1..Len(attempts) : attempts[k] # FoundationModelArn(alt_model)
    THEN Append(attempts, FoundationModelArn(alt_model))
    ELSE attempts

\* Try 3 (bedrock.py:299-304), appended to the attempts so far
AttemptsTry3(current_model_arn, attempts) ==
    LET base_foundation_arn == FoundationModelArn(SplitColonFirst(model_id)) IN
    IF /\ Contains(model_id, <<":">>)
       /\ base_foundation_arn # current_model_arn
       /\ \A k \in 1..Len(attempts) : attempts[k] # base_foundation_arn
    THEN Append(attempts, base_foundation_arn)
    ELSE attempts

\* the enumeration ending with the identifier that has just failed
ModelArnAttemptsThenCurrent(current_model_arn) ==
    Append(AttemptsTry3(current_model_arn,
               AttemptsTry2(current_model_arn, AttemptsTry1(current_model_arn))),
           current_model_arn)

ModelArnAttempts(current_model_arn) ==
    AttemptsTry3(current_model_arn,
        AttemptsTry2(current_model_arn, AttemptsTry1(current_model_arn)))

-----------------------------------------------------------------------------
(* Request *)

NumberOfResults == 5

OrchestrationTemplate ==
    <<"Review the following retrieved documents and prepare a comprehensive context",
      "$search_results$", "$query$", "$conversation_history$",
      "$output_format_instructions$", "Organized Context:">>

GenerationTemplate ==
    <<"Use the following pieces of context to answer the question at the end.",
      "$search_results$", "$query$", "Answer:">>

build_retrieve_config(model_arn_value) ==
    [type |-> "KNOWLEDGE_BASE",
     knowledgeBaseConfiguration |->
        [knowledgeBaseId |-> Strip(kb_id),
         modelArn |-> Strip(model_arn_value),
         retrievalConfiguration |->
            [vectorSearchConfiguration |-> [numberOfResults |-> NumberOfResults]],
         orchestrationConfiguration |->
            [promptTemplate |-> [textPromptTemplate |-> OrchestrationTemplate]],
         generationConfiguration |->
            [promptTemplate |-> [textPromptTemplate |-> GenerationTemplate]]]]

\* re.match(r'^[0-9a-zA-Z._:-]+$', session_id): the class repeated from the
\* start, then $, which in Python matches at the end of the text and also
\* just before a newline that ends the text
SessionIdChar(a) == a \in {"s", "1", ".", "_", ":", "-"}

SessionIdMatches(session_id) ==
    \E n \in 1..Len(session_id) :
        /\ \A k \in 1..n : SessionIdChar(session_id[k])
        /\ \/ n = Len(session_id)
           \/ n + 1 = Len(session_id) /\ session_id[n + 1] = "\n"

\* bedrock.py:128-133
ValidatedSessionId(session_id) ==
    IF Truthy(session_id) /\ ~SessionIdMatches(session_id) THEN None ELSE session_id

\* self.prompt_engine: the application constructs the engine with one
prompt_engine == TRUE

\* the enhancement applied whatever the use_advanced_prompts flag
EnhancedQuestionIgnoringFlag(question, conversation_history, use_advanced_prompts) ==
    IF prompt_engine /\ conversation_history # <<>>
    THEN LET e1 == enhance_query(question, conversation_history)
             e2 == IF ~Truthy(e1) THEN question ELSE e1
             e3 == Strip(e2)
         IN  IF e3 = <<>> THEN question ELSE e3
    ELSE question

\* bedrock.py:110-121
EnhancedQuestion(question, conversation_history, use_advanced_prompts) ==
    IF use_advanced_prompts /\ prompt_engine /\ conversation_history # <<>>
    THEN LET e1 == enhance_query(question, conversation_history)
             e2 == IF ~Truthy(e1) THEN question ELSE e1
             e3 == Strip(e2)
         IN  IF e3 = <<>> THEN question ELSE e3
    ELSE question

\* the classifier run whatever use_advanced_prompts says
QueryTypeIgnoringFlag(question, query_type, use_advanced_prompts) ==
    IF ~Truthy(query_type) /\ prompt_engine
    THEN detect_query_type(question)
    ELSE query_type

\* bedrock.py:123-126
QueryType(question, query_type, use_advanced_prompts) ==
    IF ~Truthy(query_type) /\ use_advanced_prompts /\ prompt_engine
    THEN detect_query_type(question)
    ELSE query_type

\* the configuration block left out when a session is continued
BuildParamsConfigForNewSessionOnly(enhanced_question, session_id) ==
    IF Truthy(session_id)
    THEN [input |-> [text |-> enhanced_question], sessionId |-> session_id]
    ELSE [input |-> [text |-> enhanced_question],
          retrieveAndGenerateConfiguration |-> build_retrieve_config(get_model_arn)]

\* bedrock.py:204-217
BuildParams(enhanced_question, session_id) ==
    LET base == [input |-> [text |-> enhanced_question],
                 retrieveAndGenerateConfiguration |-> build_retrieve_config(get_model_arn)]
    IN  IF Truthy(session_id) THEN base @@ [sessionId |-> session_id] ELSE base

\* the validation without the check of the stripped question
PreCallErrorNoBlankCheck(question) ==
    IF ~Truthy(question) THEN ValueError("Question must be a non-empty string")
    ELSE IF ~Truthy(kb_id) \/ Strip(kb_id) = <<>>
         THEN ValueError("Knowledge Base ID is not configured or invalid")
    ELSE IF ~Truthy(model_id) \/ Strip(model_id) = <<>>
         THEN ValueError("Model ID is not configured or invalid")
    ELSE NoException

\* the validation without the check of the model id
PreCallErrorNoModelCheck(question) ==
    IF ~Truthy(question) THEN ValueError("Question must be a non-empty string")
    ELSE IF Strip(question) = <<>> THEN ValueError("Question cannot be empty or whitespace only")
    ELSE IF ~Truthy(kb_id) \/ Strip(kb_id) = <<>>
         THEN ValueError("Knowledge Base ID is not configured or invalid")
    ELSE NoException

\* the ValueError raised inside the try before any provider call
\* (bedrock.py:94-108), or None
PreCallError(question) ==
    IF ~Truthy(question) THEN ValueError("Question must be a non-empty string")
    ELSE IF Strip(question) = <<>> THEN ValueError("Question cannot be empty or whitespace only")
    ELSE IF ~Truthy(kb_id) \/ Strip(kb_id) = <<>>
         THEN ValueError("Knowledge Base ID is not configured or invalid")
    ELSE IF ~Truthy(model_id) \/ Strip(model_id) = <<>>
         THEN ValueError("Model ID is not configured or invalid")
    ELSE NoException

-----------------------------------------------------------------------------
(* Error classification and the retry loop *)

\* every validation message taken for a model error
is_model_error_always(error_message) == TRUE

\* bedrock.py:268-272
is_model_error(error_message) ==
    \/ Contains(Lower(error_message), <<"invalid">>)
    \/ Contains(Lower(error_message), <<"model">>)
    \/ Contains(Lower(error_message), <<"identifier">>)

\* the retry decided on the message alone, whatever the error code
ShouldRetryAnyCode(error_code, error_message) ==
    /\ "retrieveAndGenerateConfiguration" \in DOMAIN params
    /\ is_model_error(error_message)

\* bedrock.py:266-274, for the request body p
ShouldRetryWith(p, error_code, error_message) ==
    /\ error_code = "ValidationException"
    /\ "retrieveAndGenerateConfiguration" \in DOMAIN p
    /\ is_model_error(error_message)

\* bedrock.py:266-274: the first failure starts the retry loop
ShouldRetry(error_code, error_message) == ShouldRetryWith(params, error_code, error_message)

\* the exhaustion error without the account of what was tried
ExhaustedErrorBare(error_code, error_message, attempts) ==
    Exception(AwsErrorText(error_code, error_message))

\* bedrock.py:329
ExhaustedError(error_code, error_message, attempts) ==
    Exception(AwsErrorText(error_code, error_message)
        \o <<". Tried ", ToString(Len(attempts)), " alternative model formats, all failed.">>)

\* bedrock.py:330-337
NotRetriedError(error_code, error_message) ==
    Exception(AwsErrorText(error_code, error_message))

\* a retry loop without its break
BreakMissing(success) == FALSE

\* bedrock.py:315-316: a successful retry leaves the loop
Break(success) == success

\* the retry started as a new conversation: the session id left out too
WithModelArnNewSession(p, alt_model_arn) ==
    [k \in DOMAIN p \ {"sessionId"} |->
        IF k = "retrieveAndGenerateConfiguration"
        THEN [p[k] EXCEPT !.knowledgeBaseConfiguration.modelArn = alt_model_arn]
        ELSE p[k]]

\* bedrock.py:311
WithModelArn(p, alt_model_arn) ==
    [p EXCEPT !.retrieveAndGenerateConfiguration.knowledgeBaseConfiguration.modelArn
                  = alt_model_arn]

-----------------------------------------------------------------------------
(* Response normalization *)

NoResult == [none |-> TRUE]
NoResponse == [none |-> TRUE]
NoParams == [none |-> TRUE]

\* a or b
Or(a, b) == IF Truthy(a) THEN a ELSE b

\* the request's session id preferred to the provider's
response_session_id_request_first(resp, p) ==
    Or(Get(p, "sessionId", None), Get(resp, "sessionId", None))

\* bedrock.py:369
response_session_id(resp, p) ==
    Or(Get(resp, "sessionId", None), Get(p, "sessionId", None))

\* uri.split('/')[-1]
RECURSIVE LastSegment(_)
LastSegment(uri) ==
    IF uri = <<>> \/ uri[Len(uri)] = "/" THEN <<>>
    ELSE Append(LastSegment(SubSeq(uri, 1, Len(uri) - 1)), uri[Len(uri)])

\* bedrock.py:355-365
source_info(ref) ==
    LET location == Get(ref, "location", [none |-> TRUE])
        s3_location == Get(location, "s3Location", [none |-> TRUE])
        uri == Get(s3_location, "uri", <<>>)
    IN  [content |-> Get(Get(ref, "content", [none |-> TRUE]), "text", <<>>),
         location |-> location,
         s3_uri |-> uri,
         s3_key |-> IF uri # <<>> THEN LastSegment(uri) ELSE <<>>,
         score |-> Get(ref, "score", 0),
         type |-> Get(Get(ref, "content", [none |-> TRUE]), "type", <<"text">>)]

\* one source per citation: its first reference only
SourcesFirstReferenceOnly(citations) ==
    Flatten([c \in 1..Len(citations) |->
        LET retrieved_references == Get(citations[c], "retrievedReferences", <<>>) IN
        [r \in 1..(IF retrieved_references = <<>> THEN 0 ELSE 1) |->
            source_info(retrieved_references[r])]])

\* bedrock.py:351-366
Sources(citations) ==
    Flatten([c \in 1..Len(citations) |->
        LET retrieved_references == Get(citations[c], "retrievedReferences", <<>>) IN
        [r \in 1..Len(retrieved_references) |-> source_info(retrieved_references[r])]])

\* bedrock.py:346-384 (response_time_ms and timestamp, which read the clock,
\* are left out)
NormalizeWith(l, resp, p) ==
    LET sources == Sources(Get(resp, "citations", <<>>)) IN
    [answer |-> Get(Get(resp, "output", [none |-> TRUE]), "text", <<"No answer found">>),
     sources |-> sources,
     session_id |-> response_session_id(resp, p),
     query_type |-> Or(l.query_type, <<"general">>),
     enhanced_question |->
        IF l.enhanced_question # l.question THEN l.enhanced_question ELSE None,
     metadata |-> [model |-> model_id, kb_id |-> kb_id, sources_count |-> Len(sources)]]

\* the result built from the locals of the invocation
Normalize(resp, p) == NormalizeWith(locals, resp, p)

-----------------------------------------------------------------------------
(* Configurations, arguments and provider behaviours explored *)

Regions == {<<"us-east-1">>, <<"eu-west-1">>}

KbIds == {None, <<" ">>, <<"R6TD9J5RHA">>}

TitanId == <<"amazon.titan-text-express-v1">>
GptOssId == <<"openai.gpt-oss-120b-1", ":", "0">>
SonnetV2Id == <<"anthropic.", "claude-3-5-sonnet", "-20241022-v2", ":", "0">>
SonnetUpperId == <<"ANTHROPIC.", "CLAUDE-3-5-SONNET", "-V9">>
PaddedId == <<"amazon.titan-text-express-v1", " ">>
InferenceProfileArn ==
    ArnPrefix \o <<"us-east-1", ":", "123456789012", ":", "inference-profile/",
                   "us.anthropic.", "claude-3-5-sonnet", "-20241022-v2", ":", "0">>
SonnetV1FoundationArn ==
    ArnPrefix \o <<"us-east-1", ":", ":", "foundation-model/">> \o alt_model

ModelIds ==
    {None, <<" ">>, TitanId, GptOssId, SonnetV2Id, alt_model, SonnetUpperId, PaddedId,
     InferenceProfileArn, SonnetV1FoundationArn}

Questions ==
    {<<>>, <<" ", "\n">>,
     <<" ", "What", " ", "is", " ", "X?", " ">>,
     <<"How", " ", "summary", " ", "versus">>}

SessionAlphabet == {"s", "\n", "!"}

SessionIds ==
    {None} \cup UNION {[1..n -> SessionAlphabet] : n \in 0..MaxSessionLen}

Exchange(k) == [question |-> <<"Q", ToString(k)>>, answer |-> <<"A", ToString(k)>>]

Histories == {[k \in 1..n |-> Exchange(k)] : n \in 0..MaxHistory}

QueryTypes == {None, <<>>, <<"summary">>, <<"bogus">>}

\* The calls explored: every question, history, query type and flag with no
\* session id and with a well-formed one, and every session id with every
\* question, an empty history and no query type.
QueryArgs ==
    {a \in [question : Questions, session_id : SessionIds,
            conversation_history : Histories, query_type : QueryTypes,
            use_advanced_prompts : BOOLEAN] :
        \/ a.session_id \in {None, <<"s">>}
        \/ /\ a.conversation_history = <<>>
           /\ a.query_type = None
           /\ a.use_advanced_prompts}

ErrorCodes == AuthCodes \cup {"ValidationException", "ThrottlingException"}

ErrorMessages ==
    {<<"model", " ", "identifier", " ", "invalid">>,
     <<"The security token included in the request is", " ", "INVALID", ".">>,
     <<"Rate exceeded">>}

ClientErrors == {Exc("ClientError", c, m) : c \in ErrorCodes, m \in ErrorMessages}

OtherErrors == {Exc("EndpointConnectionError", "", <<"Could not connect to the endpoint URL">>)}

\* what a retry may raise: a model-validation error, a credential error,
\* a non-model validation error, a connection error
RetryErrors ==
    {Exc("ClientError", "ValidationException", <<"model", " ", "identifier", " ", "invalid">>),
     Exc("ClientError", "UnrecognizedClientException",
         <<"The security token included in the request is", " ", "INVALID", ".">>),
     Exc("ClientError", "ValidationException", <<"Rate exceeded">>)} \cup OtherErrors

FullReference ==
    [content |-> [text |-> <<"passage">>, type |-> <<"TEXT">>],
     location |-> [s3Location |->
        [uri |-> <<"s3", ":", "/", "/", "bucket", "/", "documents", "/", "x.pdf">>]],
     score |-> 87]

BareReference == [content |-> [text |-> <<"other">>]]

ImageReference == [content |-> [text |-> <<"figure">>, type |-> <<"IMAGE">>], score |-> 12]

Responses ==
    {[none |-> TRUE],
     [output |-> [text |-> <<"answer">>], citations |-> <<>>],
     [output |-> [text |-> <<"answer">>],
      citations |-> <<[retrievedReferences |-> <<FullReference, BareReference>>],
                      [generatedResponsePart |-> <<"part">>],
                      [retrievedReferences |-> <<ImageReference>>]>>,
      sessionId |-> <<"s", "9">>],
     [output |-> [text |-> <<"answer">>],
      citations |-> <<[generatedResponsePart |-> <<"part">>],
                      [retrievedReferences |-> <<BareReference>>]>>,
      sessionId |-> <<>>]}

-----------------------------------------------------------------------------
(* The state machine *)

NoArgs == [none |-> TRUE]
NoLocals == [none |-> TRUE]

\* config.get('MAX_TOKENS', 1000), config.get('TEMPERATURE', 0.7)
DefaultMaxTokens == 1000
DefaultTemperature == 7

\* the engine taking over the identifier of the retry that succeeded
ConfigAdoptsSentModel ==
    /\ UNCHANGED <<region, kb_id, max_tokens, temperature>>
    /\ model_id' =
          IF pc = "returned" /\ Len(sent) > 1
          THEN sent[Len(sent)].retrieveAndGenerateConfiguration.knowledgeBaseConfiguration.modelArn
          ELSE model_id

\* a fresh application: empty table, no cookie, no request handled, empty
\* upload folder and bucket
NoHttp == [none |-> TRUE]
NoSession == [none |-> TRUE]
NoRequest == [none |-> TRUE]

InitWeb ==
    /\ search_history = <<>>
    /\ session = NoSession
    /\ http = NoHttp
    /\ files = {}
    /\ bucket = {}
    /\ request = NoRequest
    /\ now = 0

\* the engine and the prompt engine touch neither the database, the session,
\* the upload folder nor the bucket
WebUnchanged == UNCHANGED <<search_history, session, http, files, bucket, request, now>>

\* query() assigns no attribute of the engine
ConfigUnchanged == UNCHANGED <<region, kb_id, model_id, max_tokens, temperature>>

Init ==
    /\ region \in Regions
    /\ kb_id \in KbIds
    /\ model_id \in ModelIds
    /\ max_tokens = DefaultMaxTokens
    /\ temperature = DefaultTemperature
    /\ pc = "idle"
    /\ args = NoArgs
    /\ locals = NoLocals
    /\ params = NoParams
    /\ first_error = NoException
    /\ model_arn_attempts = <<>>
    /\ i = 0
    /\ last_error = NoException
    /\ retry_success = FALSE
    /\ response = NoResponse
    /\ sent = <<>>
    /\ result = NoResult
    /\ raised = NoException
    /\ InitWeb

Return(resp, p) ==
    /\ result' = Normalize(resp, p)
    /\ raised' = NoException
    /\ pc' = "returned"

\* the failure swallowed: query() returns nothing instead of raising
RaiseSwallowed(e) ==
    /\ raised' = NoException
    /\ result' = NoResult
    /\ pc' = "returned"

Raise(e) ==
    /\ raised' = e
    /\ result' = NoResult
    /\ pc' = "raised"

\* query() from its entry to its first provider call (bedrock.py:86-257)
Query(question, session_id, conversation_history, query_type, use_advanced_prompts) ==
    /\ pc = "idle"
    /\ args' = [question |-> question, session_id |-> session_id,
                conversation_history |-> conversation_history,
                query_type |-> query_type,
                use_advanced_prompts |-> use_advanced_prompts]
    /\ ConfigUnchanged
    /\ WebUnchanged
    /\ UNCHANGED <<first_error, model_arn_attempts, i,
                   last_error, retry_success, response>>
    /\ IF ~Truthy(kb_id)
       THEN /\ Raise(ValueError("Knowledge Base ID not configured"))
            /\ UNCHANGED <<locals, params, sent>>
       ELSE IF PreCallError(question) # NoException
       THEN /\ Raise(OuterExcept(PreCallError(question)))
            /\ UNCHANGED <<locals, params, sent>>
       ELSE LET q == Strip(question)
                enhanced_question ==
                    EnhancedQuestion(q, conversation_history, use_advanced_prompts)
                p == BuildParams(enhanced_question, ValidatedSessionId(session_id))
            IN  /\ locals' = [question |-> q,
                              enhanced_question |-> enhanced_question,
                              query_type |-> QueryType(q, query_type, use_advanced_prompts),
                              session_id |-> ValidatedSessionId(session_id)]
                /\ params' = p
                /\ sent' = <<p>>
                /\ pc' = "first_call"
                /\ UNCHANGED <<result, raised>>

\* the first retrieve_and_generate returns (bedrock.py:257, 342-384)
FirstCallReturns(resp) ==
    /\ pc = "first_call"
    /\ response' = resp
    /\ Return(resp, params)
    /\ ConfigUnchanged
    /\ WebUnchanged
    /\ UNCHANGED <<args, locals, params, first_error,
                   model_arn_attempts, i, last_error, retry_success, sent>>

\* the first retrieve_and_generate raises ClientError (bedrock.py:258-337):
\* either the error is raised, or the alternatives are enumerated and the
\* first of them is sent
FirstCallClientError(e) ==
    /\ pc = "first_call"
    /\ first_error' = e
    /\ ConfigUnchanged
    /\ WebUnchanged
    /\ UNCHANGED <<args, locals, last_error, retry_success,
                   response>>
    /\ IF ShouldRetry(e.Code, e.Message)
       THEN LET current_model_arn ==
                    params.retrieveAndGenerateConfiguration.knowledgeBaseConfiguration.modelArn
                attempts == ModelArnAttempts(current_model_arn)
            IN  /\ model_arn_attempts' = attempts
                /\ IF attempts = <<>>
                   THEN /\ Raise(OuterExcept(ExhaustedError(e.Code, e.Message, attempts)))
                        /\ UNCHANGED <<params, sent, i>>
                   ELSE /\ params' = WithModelArn(params, attempts[1])
                        /\ sent' = Append(sent, params')
                        /\ i' = 1
                        /\ pc' = "retry_call"
                        /\ UNCHANGED <<result, raised>>
       ELSE /\ Raise(OuterExcept(NotRetriedError(e.Code, e.Message)))
            /\ UNCHANGED <<params, sent, i, model_arn_attempts>>

\* the first retrieve_and_generate raises anything else (bedrock.py:338-340)
FirstCallOtherError(e) ==
    /\ pc = "first_call"
    /\ Raise(OuterExcept(e))
    /\ ConfigUnchanged
    /\ WebUnchanged
    /\ UNCHANGED <<args, locals, params, first_error,
                   model_arn_attempts, i, last_error, retry_success, response, sent>>

\* the loop given up when a retry fails with a credential/signature error
AfterIterationStoppingOnAuth(success) ==
    IF ~Break(success) /\ i < Len(model_arn_attempts) /\ last_error'.Code \notin AuthCodes
    THEN /\ params' = WithModelArn(params, model_arn_attempts[i + 1])
         /\ sent' = Append(sent, params')
         /\ i' = i + 1
         /\ pc' = "retry_call"
         /\ UNCHANGED <<result, raised>>
    ELSE /\ IF ~retry_success'
            THEN Raise(OuterExcept(ExhaustedError(first_error.Code, first_error.Message,
                                                  model_arn_attempts)))
            ELSE Return(response', params)
         /\ UNCHANGED <<params, sent, i>>

\* what follows one iteration of the retry loop (bedrock.py:309-329): the
\* next alternative is sent, or the loop is left and query() returns a
\* result or raises
AfterIteration(success) ==
    IF ~Break(success) /\ i < Len(model_arn_attempts)
    THEN /\ params' = WithModelArn(params, model_arn_attempts[i + 1])
         /\ sent' = Append(sent, params')
         /\ i' = i + 1
         /\ pc' = "retry_call"
         /\ UNCHANGED <<result, raised>>
    ELSE /\ IF ~retry_success'
            THEN Raise(OuterExcept(ExhaustedError(first_error.Code, first_error.Message,
                                                  model_arn_attempts)))
            ELSE Return(response', params)
         /\ UNCHANGED <<params, sent, i>>

\* a retry returns (bedrock.py:313-316)
RetryReturns(resp) ==
    /\ pc = "retry_call"
    /\ response' = resp
    /\ retry_success' = TRUE
    /\ ConfigUnchanged
    /\ WebUnchanged
    /\ UNCHANGED <<args, locals, first_error,
                   model_arn_attempts, last_error>>
    /\ AfterIteration(TRUE)

\* a retry raises (bedrock.py:317-320)
RetryFails(e) ==
    /\ pc = "retry_call"
    /\ last_error' = e
    /\ ConfigUnchanged
    /\ WebUnchanged
    /\ UNCHANGED <<args, locals, first_error,
                   model_arn_attempts, retry_success, response>>
    /\ AfterIteration(FALSE)

\* query() has returned or raised; the engine is ready for the next call
Finish ==
    /\ pc \in {"returned", "raised"}
    /\ pc' = "idle"
    /\ args' = NoArgs
    /\ locals' = NoLocals
    /\ params' = NoParams
    /\ first_error' = NoException
    /\ model_arn_attempts' = <<>>
    /\ i' = 0
    /\ last_error' = NoException
    /\ retry_success' = FALSE
    /\ response' = NoResponse
    /\ sent' = <<>>
    /\ result' = NoResult
    /\ raised' = NoException
    /\ ConfigUnchanged
    /\ WebUnchanged

Next ==
    \/ \E a \in QueryArgs :
            Query(a.question, a.session_id, a.conversation_history, a.query_type,
                  a.use_advanced_prompts)
    \/ \E resp \in Responses : FirstCallReturns(resp)
    \/ \E e \in ClientErrors : FirstCallClientError(e)
    \/ \E e \in OtherErrors : FirstCallOtherError(e)
    \/ \E resp \in Responses : RetryReturns(resp)
    \/ \E e \in RetryErrors : RetryFails(e)
    \/ Finish

Spec == Init /\ [][Next]_vars

-----------------------------------------------------------------------------
(* The prompt engine on its own: detect_query_type and enhance_query applied *)
(* to questions of up to MaxQuestionLen words and histories of up to         *)
(* MaxHistory exchanges.                                                     *)

PromptWords == {"How", "setup", "summary", "versus", "vs", "pricing"}

PromptQuestions == UNION {[1..n -> PromptWords] : n \in 0..MaxQuestionLen}

InitPrompt ==
    /\ region = <<"us-east-1">>
    /\ kb_id = <<"R6TD9J5RHA">>
    /\ model_id = GptOssId
    /\ max_tokens = DefaultMaxTokens
    /\ temperature = DefaultTemperature
    /\ pc = "idle"
    /\ args \in {[question |-> q, conversation_history |-> h] :
                     q \in PromptQuestions, h \in Histories}
    /\ locals = NoLocals
    /\ params = NoParams
    /\ first_error = NoException
    /\ model_arn_attempts = <<>>
    /\ i = 0
    /\ last_error = NoException
    /\ retry_success = FALSE
    /\ response = NoResponse
    /\ sent = <<>>
    /\ result = NoResult
    /\ raised = NoException
    /\ InitWeb

DetectQueryType ==
    /\ pc = "idle"
    /\ pc' = "detected"
    /\ result' = [query_type |-> detect_query_type(args.question)]
    /\ ConfigUnchanged
    /\ WebUnchanged
    /\ UNCHANGED <<args, locals, params, first_error,
                   model_arn_attempts, i, last_error, retry_success, response, sent,
                   raised>>

EnhanceQuery ==
    /\ pc = "idle"
    /\ pc' = "enhanced"
    /\ result' = [enhanced |-> enhance_query(args.question, args.conversation_history)]
    /\ ConfigUnchanged
    /\ WebUnchanged
    /\ UNCHANGED <<args, locals, params, first_error,
                   model_arn_attempts, i, last_error, retry_success, response, sent,
                   raised>>

NextPrompt ==
    \/ DetectQueryType
    \/ EnhanceQuery

SpecPrompt == InitPrompt /\ [][NextPrompt]_vars

-----------------------------------------------------------------------------
(* Two invocations of query() running concurrently on one engine (the Flask  *)
(* application serves requests in threads). Every variable of an invocation  *)
(* is a function of the call; the configuration is the engine's. A step is   *)
(* the code of one call between two provider calls, which reads and writes   *)
(* only names local to that call.                                            *)

Calls == {1, 2}

\* the frame holding `params` (bedrock.py:204): a local of the call, shared
\* by all calls
ParamsSlotShared(c) == 1

\* the frame holding `params` (bedrock.py:204): a local of the call
ParamsSlot(c) == c

ConcurrentModelIds == {GptOssId, SonnetV2Id}

ConcurrentArgs ==
    {[question |-> <<" ", "What", " ", "is", " ", "X?", " ">>, session_id |-> None,
      conversation_history |-> <<>>, query_type |-> None, use_advanced_prompts |-> TRUE],
     [question |-> <<"How", " ", "summary", " ", "versus">>, session_id |-> <<"s">>,
      conversation_history |-> <<Exchange(1)>>, query_type |-> None,
      use_advanced_prompts |-> TRUE],
     [question |-> <<" ", "\n">>, session_id |-> None,
      conversation_history |-> <<>>, query_type |-> None, use_advanced_prompts |-> TRUE]}

ConcurrentFirstErrors ==
    {Exc("ClientError", "ValidationException", <<"model", " ", "identifier", " ", "invalid">>),
     Exc("ClientError", "ThrottlingException", <<"Rate exceeded">>)}

Upd(f, c, v) == [f EXCEPT ![c] = v]

InitConcurrent ==
    /\ region = <<"us-east-1">>
    /\ kb_id = <<"R6TD9J5RHA">>
    /\ model_id \in ConcurrentModelIds
    /\ max_tokens = DefaultMaxTokens
    /\ temperature = DefaultTemperature
    /\ pc = [c \in Calls |-> "idle"]
    /\ args = [c \in Calls |-> NoArgs]
    /\ locals = [c \in Calls |-> NoLocals]
    /\ params = [c \in Calls |-> NoParams]
    /\ first_error = [c \in Calls |-> NoException]
    /\ model_arn_attempts = [c \in Calls |-> <<>>]
    /\ i = [c \in Calls |-> 0]
    /\ last_error = [c \in Calls |-> NoException]
    /\ retry_success = [c \in Calls |-> FALSE]
    /\ response = [c \in Calls |-> NoResponse]
    /\ sent = [c \in Calls |-> <<>>]
    /\ result = [c \in Calls |-> NoResult]
    /\ raised = [c \in Calls |-> NoException]
    /\ InitWeb

CallReturns(c, resp) ==
    /\ result' = Upd(result, c, NormalizeWith(locals[c], resp, params[ParamsSlot(c)]))
    /\ raised' = Upd(raised, c, NoException)
    /\ pc' = Upd(pc, c, "returned")

CallRaises(c, e) ==
    /\ raised' = Upd(raised, c, e)
    /\ result' = Upd(result, c, NoResult)
    /\ pc' = Upd(pc, c, "raised")

\* the alternative written into params and sent (bedrock.py:311-313)
CallSends(c, alt_model_arn) ==
    /\ params' = Upd(params, ParamsSlot(c), WithModelArn(params[ParamsSlot(c)], alt_model_arn))
    /\ sent' = Upd(sent, c, Append(sent[c], params'[ParamsSlot(c)]))

\* call c from its entry to its first provider call (bedrock.py:86-257)
CallQuery(c, a) ==
    /\ pc[c] = "idle"
    /\ args' = Upd(args, c, a)
    /\ ConfigUnchanged
    /\ WebUnchanged
    /\ UNCHANGED <<first_error, model_arn_attempts, i, last_error, retry_success, response>>
    /\ IF ~Truthy(kb_id)
       THEN /\ CallRaises(c, ValueError("Knowledge Base ID not configured"))
            /\ UNCHANGED <<locals, params, sent>>
       ELSE IF PreCallError(a.question) # NoException
       THEN /\ CallRaises(c, OuterExcept(PreCallError(a.question)))
            /\ UNCHANGED <<locals, params, sent>>
       ELSE LET q == Strip(a.question)
                enhanced_question ==
                    EnhancedQuestion(q, a.conversation_history, a.use_advanced_prompts)
                p == BuildParams(enhanced_question, ValidatedSessionId(a.session_id))
            IN  /\ locals' = Upd(locals, c,
                                 [question |-> q,
                                  enhanced_question |-> enhanced_question,
                                  query_type |-> QueryType(q, a.query_type,
                                                           a.use_advanced_prompts),
                                  session_id |-> ValidatedSessionId(a.session_id)])
                /\ params' = Upd(params, ParamsSlot(c), p)
                /\ sent' = Upd(sent, c, <<p>>)
                /\ pc' = Upd(pc, c, "first_call")
                /\ UNCHANGED <<result, raised>>

\* the first provider call of c returns (bedrock.py:257, 342-384)
CallFirstReturns(c, resp) ==
    /\ pc[c] = "first_call"
    /\ response' = Upd(response, c, resp)
    /\ CallReturns(c, resp)
    /\ ConfigUnchanged
    /\ WebUnchanged
    /\ UNCHANGED <<args, locals, params, first_error, model_arn_attempts, i,
                   last_error, retry_success, sent>>

\* the first provider call of c raises ClientError (bedrock.py:258-337)
CallFirstClientError(c, e) ==
    /\ pc[c] = "first_call"
    /\ first_error' = Upd(first_error, c, e)
    /\ ConfigUnchanged
    /\ WebUnchanged
    /\ UNCHANGED <<args, locals, last_error, retry_success, response>>
    /\ IF ShouldRetryWith(params[ParamsSlot(c)], e.Code, e.Message)
       THEN LET current_model_arn ==
                    params[ParamsSlot(c)].retrieveAndGenerateConfiguration
                        .knowledgeBaseConfiguration.modelArn
                attempts == ModelArnAttempts(current_model_arn)
            IN  /\ model_arn_attempts' = Upd(model_arn_attempts, c, attempts)
                /\ IF attempts = <<>>
                   THEN /\ CallRaises(c, OuterExcept(ExhaustedError(e.Code, e.Message,
                                                                   attempts)))
                        /\ UNCHANGED <<params, sent, i>>
                   ELSE /\ CallSends(c, attempts[1])
                        /\ i' = Upd(i, c, 1)
                        /\ pc' = Upd(pc, c, "retry_call")
                        /\ UNCHANGED <<result, raised>>
       ELSE /\ CallRaises(c, OuterExcept(NotRetriedError(e.Code, e.Message)))
            /\ UNCHANGED <<params, sent, i, model_arn_attempts>>

\* the first provider call of c raises anything else (bedrock.py:338-340)
CallFirstOtherError(c, e) ==
    /\ pc[c] = "first_call"
    /\ CallRaises(c, OuterExcept(e))
    /\ ConfigUnchanged
    /\ WebUnchanged
    /\ UNCHANGED <<args, locals, params, first_error, model_arn_attempts, i,
                   last_error, retry_success, response, sent>>

\* what follows one iteration of the retry loop of c (bedrock.py:309-329)
CallAfterIteration(c, success) ==
    IF ~Break(success) /\ i[c] < Len(model_arn_attempts[c])
    THEN /\ CallSends(c, model_arn_attempts[c][i[c] + 1])
         /\ i' = Upd(i, c, i[c] + 1)
         /\ pc' = Upd(pc, c, "retry_call")
         /\ UNCHANGED <<result, raised>>
    ELSE /\ IF ~retry_success'[c]
            THEN CallRaises(c, OuterExcept(ExhaustedError(first_error[c].Code,
                                                          first_error[c].Message,
                                                          model_arn_attempts[c])))
            ELSE CallReturns(c, response'[c])
         /\ UNCHANGED <<params, sent, i>>

\* a retry of c returns (bedrock.py:313-316)
CallRetryReturns(c, resp) ==
    /\ pc[c] = "retry_call"
    /\ response' = Upd(response, c, resp)
    /\ retry_success' = Upd(retry_success, c, TRUE)
    /\ ConfigUnchanged
    /\ WebUnchanged
    /\ UNCHANGED <<args, locals, first_error, model_arn_attempts, last_error>>
    /\ CallAfterIteration(c, TRUE)

\* a retry of c raises (bedrock.py:317-320)
CallRetryFails(c, e) ==
    /\ pc[c] = "retry_call"
    /\ last_error' = Upd(last_error, c, e)
    /\ ConfigUnchanged
    /\ WebUnchanged
    /\ UNCHANGED <<args, locals, first_error, model_arn_attempts, retry_success, response>>
    /\ CallAfterIteration(c, FALSE)

NextConcurrent ==
    \/ \E c \in Calls, a \in ConcurrentArgs : CallQuery(c, a)
    \/ \E c \in Calls, resp \in Responses : CallFirstReturns(c, resp)
    \/ \E c \in Calls, e \in ConcurrentFirstErrors : CallFirstClientError(c, e)
    \/ \E c \in Calls, e \in OtherErrors : CallFirstOtherError(c, e)
    \/ \E c \in Calls, resp \in Responses : CallRetryReturns(c, resp)
    \/ \E c \in Calls, e \in RetryErrors : CallRetryFails(c, e)

SpecConcurrent == InitConcurrent /\ [][NextConcurrent]_vars

-----------------------------------------------------------------------------
(* The web application. The texts of a request are sequences of characters,  *)
(* "NUL" standing for the null byte. One client is modelled: `session` is    *)
(* the session its cookie carries. The metrics table, which no handler       *)
(* modelled here reads, is left out.                                         *)

SanitizeMaxLength == 5000
MaxQuestionLength == 5000
MinQuestionLength == 3
HistoryLimit == 1000
HistoryWindow == 5

\* utils.py:108-120
sanitize_input(text) ==
    IF ~Truthy(text) THEN <<>>
    ELSE Strip(Take(SelectSeq(text, LAMBDA a : a # "NUL"), SanitizeMaxLength))

\* re.IGNORECASE, for the letters the patterns name
LowerChar(a) ==
    CASE a = "S" -> "s"
      [] a = "O" -> "o"
      [] a = "J" -> "j"
      [] OTHER -> a

\* \w
WordChar(a) == a \notin {" ", "\n", "<", ">", "=", ":", "?", "NUL"}

\* re.search of a literal pattern
SearchLiteral(question, literal) ==
    \E p \in 1..(Len(question) - Len(literal) + 1) :
        \A k \in 1..Len(literal) : LowerChar(question[p + k - 1]) = literal[k]

\* re.search(r'on\w+\s*=')
SearchOnHandler(question) ==
    \E p \in 1..(Len(question) - 3) :
        /\ LowerChar(question[p]) = "o"
        /\ LowerChar(question[p + 1]) = "n"
        /\ \E a \in (p + 3)..Len(question) :
              /\ \A k \in (p + 2)..(a - 1) : WordChar(question[k])
              /\ \E e \in a..Len(question) :
                    /\ question[e] = "="
                    /\ \A k \in a..(e - 1) : IsSpace(question[k])

\* utils.py:95-103
Suspicious(question) ==
    \/ SearchLiteral(question, <<"<", "s", "c", "r", "i", "p", "t">>)
    \/ SearchLiteral(question, <<"j", "a", "v", "a", "s", "c", "r", "i", "p", "t", ":">>)
    \/ SearchOnHandler(question)

\* utils.py:74-105
validate_question(question) ==
    IF ~Truthy(question) \/ Strip(question) = <<>>
    THEN [is_valid |-> FALSE, error_msg |-> "Question cannot be empty"]
    ELSE IF Len(Strip(question)) > MaxQuestionLength
    THEN [is_valid |-> FALSE, error_msg |-> "Question is too long (max 5000 characters)"]
    ELSE IF Len(Strip(question)) < MinQuestionLength
    THEN [is_valid |-> FALSE, error_msg |-> "Question is too short (min 3 characters)"]
    ELSE IF Suspicious(Strip(question))
    THEN [is_valid |-> FALSE, error_msg |-> "Question contains invalid content"]
    ELSE [is_valid |-> TRUE, error_msg |-> ""]

Reverse(h) == [k \in 1..Len(h) |-> h[Len(h) - k + 1]]

\* database.py:148-153: WHERE session_id = ? ORDER BY created_at DESC LIMIT ?
\* (rows are stamped on insertion; rows of one session are taken to carry
\* different stamps)
get_search_history(session_id, limit) ==
    Take(Reverse(SelectSeq(search_history, LAMBDA row : row.session_id = session_id)), limit)

\* database.py:165-167
get_session_history(session_id) == get_search_history(session_id, HistoryLimit)

\* chatbot.py:74-82
ConversationHistory(session_id) ==
    IF Truthy(session_id)
    THEN LET history == LastN(get_session_history(session_id), HistoryWindow) IN
         [k \in 1..Len(history) |->
            [question |-> history[k].question, answer |-> history[k].answer]]
    ELSE <<>>

NoBody == [none |-> TRUE]

\* everything of the engine but pc, args, result and raised, which hold the
\* call of query() the handler makes
EngineLocalsUnchanged ==
    UNCHANGED <<locals, params, first_error, model_arn_attempts, i, last_error,
                retry_success, response, sent>>

Respond(status, body) == http' = [status |-> status, body |-> body]

\* ask_question up to its call of query() (chatbot.py:55-92)
AskReceive(data) ==
    /\ pc = "idle"
    /\ Len(search_history) <= MaxStored
    /\ request' = [path |-> "/api/ask", data |-> data]
    /\ ConfigUnchanged
    /\ EngineLocalsUnchanged
    /\ UNCHANGED <<search_history, session, files, bucket, now, result, raised>>
    /\ IF data = NoBody
       THEN /\ Respond(400, [error |-> "Invalid request: JSON body required"])
            /\ UNCHANGED <<pc, args>>
       ELSE LET question == sanitize_input(Get(data, "question", <<>>))
                session_id == Or(sanitize_input(Get(data, "session_id", <<>>)),
                                 Get(session, "session_id", None))
                query_type == IF Truthy(Get(data, "query_type", None))
                              THEN sanitize_input(data.query_type) ELSE None
                use_advanced_prompts == Get(data, "use_advanced_prompts", TRUE)
            IN  IF ~validate_question(question).is_valid
                THEN /\ Respond(400, [error |-> validate_question(question).error_msg])
                     /\ UNCHANGED <<pc, args>>
                ELSE /\ args' = [question |-> question, session_id |-> session_id,
                                 conversation_history |-> ConversationHistory(session_id),
                                 query_type |-> query_type,
                                 use_advanced_prompts |-> use_advanced_prompts]
                     /\ pc' = "querying"
                     /\ http' = NoHttp

\* the answers of the provider are all different: the k-th exchange stored
\* carries the answer named Ak
NextAnswer == <<"A", ToString(Len(search_history) + 1)>>

\* query() returns r with the next answer and ask_question ends
\* (chatbot.py:94-138)
AskQueryReturns(r) ==
    /\ pc = "querying"
    /\ pc' = "idle"
    /\ result' = [answer |-> NextAnswer] @@ r
    /\ session' = [session_id |-> r.session_id] @@ session
    /\ ConfigUnchanged
    /\ EngineLocalsUnchanged
    /\ UNCHANGED <<args, raised, files, bucket, now, request>>
    /\ IF r.session_id = None
       THEN \* session_id[:8] at chatbot.py:101 raises TypeError
            /\ Respond(500, [error |-> "Failed to process question: 'NoneType' object is not subscriptable"])
            /\ UNCHANGED search_history
       ELSE /\ search_history' = Append(search_history,
                    [session_id |-> r.session_id, question |-> args.question,
                     answer |-> NextAnswer])
            /\ Respond(200, [answer |-> NextAnswer, session_id |-> r.session_id,
                             query_id |-> Len(search_history) + 1,
                             query_type |-> r.query_type])

\* query() raises and ask_question ends (chatbot.py:140-154)
AskQueryRaises(e) ==
    /\ pc = "querying"
    /\ pc' = "idle"
    /\ raised' = e
    /\ Respond(500, [error |-> <<"Failed to process question: ">> \o e.Message])
    /\ ConfigUnchanged
    /\ EngineLocalsUnchanged
    /\ UNCHANGED <<args, result, search_history, session, files, bucket, now, request>>

AskSessionIds == {<<"s", "1">>, <<"s", "2">>}

AskQuestions == {<<"Q", "1", "?">>, <<"h", "i">>}

AskData ==
    {NoBody} \cup {[question |-> q] : q \in AskQuestions}
             \cup {[question |-> q, session_id |-> s] : q \in AskQuestions, s \in AskSessionIds}

\* what query() may return, but for the answer
AskResults ==
    {[session_id |-> s, query_type |-> <<"general">>] : s \in AskSessionIds \cup {None}}

AskErrors == {Exception(<<"Failed to query knowledge base: ", "Could not connect">>)}

InitAsk ==
    /\ region = <<"us-east-1">>
    /\ kb_id = <<"R6TD9J5RHA">>
    /\ model_id = GptOssId
    /\ max_tokens = DefaultMaxTokens
    /\ temperature = DefaultTemperature
    /\ pc = "idle"
    /\ args = NoArgs
    /\ locals = NoLocals
    /\ params = NoParams
    /\ first_error = NoException
    /\ model_arn_attempts = <<>>
    /\ i = 0
    /\ last_error = NoException
    /\ retry_success = FALSE
    /\ response = NoResponse
    /\ sent = <<>>
    /\ result = NoResult
    /\ raised = NoException
    /\ InitWeb

NextAsk ==
    \/ \E data \in AskData : AskReceive(data)
    \/ \E res \in AskResults : AskQueryReturns(res)
    \/ \E e \in AskErrors : AskQueryRaises(e)

SpecAsk == InitAsk /\ [][NextAsk]_vars

\* The questions a client may submit, around the bounds of validate_question
\* and of sanitize_input.
ValidateLengths == {0, 1, 2, 3, 4, 4999, 5000, 5001, 5002}

ValidatePads == {<<>>, <<"\n", " ">>}

Filler(n) == [k \in 1..n |-> "x"]

ValidateQuestions ==
    {l \o Filler(n) \o r : l \in ValidatePads, r \in ValidatePads, n \in ValidateLengths}
    \cup {<<"<", "S", "c", "r", "i", "p", "t", ">">>,
          <<"j", "a", "v", "a", "S", "c", "r", "i", "p", "t", ":", "x">>,
          <<"O", "n", "x", " ", "=", "x">>,
          <<"o", "n", " ", "=", "x">>,
          <<"x", "NUL", "x", "NUL", "x">>,
          <<"x", "NUL", "x">>,
          Filler(2500) \o <<"NUL">> \o Filler(2500)}

ValidateData ==
    {NoBody} \cup {[question |-> q] : q \in ValidateQuestions}
             \cup {[question |-> q, session_id |-> <<"s", "1">>] : q \in AskQuestions}
             \cup {[session_id |-> <<"s", "1">>]}

\* /api/ask with the provider unreachable: every call of query() raises, so
\* that nothing is stored
NextValidate ==
    \/ \E data \in ValidateData : AskReceive(data)
    \/ \E e \in AskErrors : AskQueryRaises(e)

SpecValidate == InitAsk /\ [][NextValidate]_vars

-----------------------------------------------------------------------------
(* The admin routes: login, logout, the dashboard and the upload of a        *)
(* document. File names are sequences of characters.                         *)

UPLOAD_FOLDER == "/tmp/uploads/"
MAX_FILE_SIZE == 52428800
MaxFilenameLength == 255
MaxPasswordLength == 1000

\* the content of the admin password file
PasswordFile == <<"p", "w", "\n">>

ProtectedPaths == {"/admin/dashboard", "/admin/upload"}

\* session.get('admin_logged_in', False)
LoggedIn(s) == Get(s, "admin_logged_in", FALSE)

\* the decorator letting API calls through and guarding the pages only
admin_required_pages_only(req, body) ==
    IF ~LoggedIn(session) /\ req.path \in {"/admin/dashboard", "/admin"}
    THEN /\ Respond(302, [location |-> "/admin"])
         /\ UNCHANGED <<pc, locals, session, files, bucket>>
    ELSE body

\* utils.py:9-71
admin_required(req, body) ==
    IF ~LoggedIn(session)
    THEN LET is_page_route == req.path \in {"/admin/dashboard", "/admin"}
             is_api_call ==
                 \/ req.is_json
                 \/ (req.accept_json /\ ~is_page_route)
                 \/ req.path \in {"/admin/kb/status", "/admin/kb/sync", "/admin/upload",
                                  "/admin/config"}
         IN  /\ IF is_api_call
                THEN Respond(401, [error |-> "Admin authentication required"])
                ELSE Respond(302, [location |-> "/admin"])
             /\ UNCHANGED <<pc, locals, session, files, bucket>>
    ELSE body

\* what the admin handlers leave alone
AdminFrame ==
    /\ ConfigUnchanged
    /\ UNCHANGED <<args, params, first_error, model_arn_attempts, i, last_error,
                   retry_success, response, sent, result, raised, search_history, now>>

\* admin.py:49-158
admin_authenticate(data, password_file_exists) ==
    /\ pc = "idle"
    /\ request' = [path |-> "/admin/login", data |-> data]
    /\ AdminFrame
    /\ UNCHANGED <<pc, locals, files, bucket>>
    /\ IF data = NoBody
       THEN Respond(400, [error |-> "Invalid request"]) /\ UNCHANGED session
       ELSE LET password == Get(data, "password", <<>>)
                stored_password == Strip(PasswordFile)
            IN  IF ~Truthy(password) \/ Len(password) > MaxPasswordLength
                THEN Respond(400, [error |-> "Invalid password"]) /\ UNCHANGED session
                ELSE IF ~password_file_exists
                THEN /\ Respond(500, [error |-> "Authentication configuration error"])
                     /\ UNCHANGED session
                ELSE IF password = stored_password
                THEN /\ session' = [admin_logged_in |-> TRUE, permanent |-> TRUE] @@ session
                     /\ Respond(200, [success |-> TRUE, redirect |-> "/admin/dashboard"])
                ELSE Respond(401, [error |-> "Invalid password"]) /\ UNCHANGED session

\* admin.py:161-167
admin_logout ==
    /\ pc = "idle"
    /\ request' = [path |-> "/admin/logout"]
    /\ session' = [k \in DOMAIN session \ {"admin_logged_in"} |-> session[k]]
    /\ Respond(200, [success |-> TRUE, redirect |-> "/admin"])
    /\ AdminFrame
    /\ UNCHANGED <<pc, locals, files, bucket>>

\* admin.py:170-175
admin_dashboard(req) ==
    /\ pc = "idle"
    /\ req.path = "/admin/dashboard"
    /\ request' = req
    /\ AdminFrame
    /\ admin_required(req,
          /\ Respond(200, [template |-> "admin_dashboard.html"])
          /\ UNCHANGED <<pc, locals, session, files, bucket>>)

\* str.lower(), for the letters of the file names explored
LowerLetter(a) ==
    CASE a = "P" -> "p"
      [] a = "D" -> "d"
      [] a = "F" -> "f"
      [] OTHER -> a

\* the index of the last "." of a name, or 0
LastDot(filename) ==
    IF \E k \in 1..Len(filename) : filename[k] = "."
    THEN CHOOSE k \in 1..Len(filename) :
            /\ filename[k] = "."
            /\ \A m \in (k + 1)..Len(filename) : filename[m] # "."
    ELSE 0

AllowedExtensions ==
    {<<"p", "d", "f">>, <<"t", "x", "t">>, <<"d", "o", "c">>, <<"d", "o", "c", "x">>,
     <<"m", "d">>, <<"h", "t", "m", "l">>, <<"c", "s", "v">>}

\* utils.py:123-131
allowed_file(filename) ==
    /\ LastDot(filename) # 0
    /\ LET ext == SubSeq(filename, LastDot(filename) + 1, Len(filename))
       IN  [k \in 1..Len(ext) |-> LowerLetter(ext[k])] \in AllowedExtensions

RECURSIVE StripDots(_)
StripDots(s) ==
    IF s # <<>> /\ Head(s) \in {".", "_"} THEN StripDots(Tail(s))
    ELSE IF s # <<>> /\ s[Len(s)] \in {".", "_"} THEN StripDots(SubSeq(s, 1, Len(s) - 1))
    ELSE s

\* werkzeug's secure_filename: path separators become "_", characters
\* outside [A-Za-z0-9_.-] are dropped, dots and underscores at both ends are
\* stripped
secure_filename(filename) ==
    StripDots(SelectSeq([k \in 1..Len(filename) |->
                            IF filename[k] = "/" THEN "_" ELSE filename[k]],
                        LAMBDA a : a \notin {" ", "?"}))

\* os.path.splitext
splitext(filename) ==
    IF LastDot(filename) <= 1
    THEN [name |-> filename, ext |-> <<>>]
    ELSE [name |-> SubSeq(filename, 1, LastDot(filename) - 1),
          ext |-> SubSeq(filename, LastDot(filename), Len(filename))]

\* admin.py:229-232
StampedFilename(filename) ==
    splitext(filename).name \o <<"_", ToString(now)>> \o splitext(filename).ext

\* upload_document up to its call of upload_to_s3 (admin.py:178-241)
upload_document(req) ==
    /\ pc = "idle"
    /\ req.path = "/admin/upload"
    /\ request' = req
    /\ AdminFrame
    /\ admin_required(req,
          /\ UNCHANGED <<session, bucket>>
          /\ IF "file" \notin DOMAIN req.files
             THEN Respond(400, [error |-> "No file provided"]) /\ UNCHANGED <<pc, locals, files>>
             ELSE LET file == req.files.file IN
                  IF file.filename = <<>>
                  THEN /\ Respond(400, [error |-> "No file selected"])
                       /\ UNCHANGED <<pc, locals, files>>
                  ELSE IF Len(file.filename) > MaxFilenameLength
                  THEN /\ Respond(400, [error |-> "Invalid filename"])
                       /\ UNCHANGED <<pc, locals, files>>
                  ELSE IF ~allowed_file(file.filename)
                  THEN /\ Respond(400, [error |-> "File type not allowed. Allowed types: pdf, txt, doc, docx, md, html, csv"])
                       /\ UNCHANGED <<pc, locals, files>>
                  ELSE IF file.size > MAX_FILE_SIZE
                  THEN /\ Respond(400, [error |-> "File too large. Maximum size: 50.0MB"])
                       /\ UNCHANGED <<pc, locals, files>>
                  ELSE IF secure_filename(file.filename) = <<>>
                  THEN /\ Respond(400, [error |-> "Invalid filename after sanitization"])
                       /\ UNCHANGED <<pc, locals, files>>
                  ELSE LET filename == StampedFilename(secure_filename(file.filename))
                           temp_path == <<UPLOAD_FOLDER>> \o filename
                       IN  /\ files' = files \cup {temp_path}
                           /\ locals' = [filename |-> filename, temp_path |-> temp_path,
                                         s3_key |-> <<"documents/">> \o filename]
                           /\ pc' = "uploading"
                           /\ http' = NoHttp)

\* upload_to_s3 returns True and upload_document ends (bedrock.py:424-427,
\* admin.py:243-253)
UploadToS3Returns ==
    /\ pc = "uploading"
    /\ pc' = "idle"
    /\ bucket' = bucket \cup {locals.s3_key}
    /\ files' = files \ {locals.temp_path}
    /\ Respond(200, [success |-> TRUE,
                     message |-> <<"File ">> \o locals.filename \o <<" uploaded successfully">>,
                     s3_key |-> locals.s3_key])
    /\ AdminFrame
    /\ UNCHANGED <<locals, session, request>>

\* what upload_to_s3 raises when s3.upload_file raises e (bedrock.py:428-438)
UploadToS3Error(e) ==
    IF e.type = "ClientError"
    THEN IF e.Code \in AuthCodes
         THEN Exception(<<"AWS Authentication Error (", e.Code, "): ">> \o e.Message
                        \o <<"\n", "Please configure AWS credentials. See error details in logs.">>)
         ELSE Exception(<<"Failed to upload to S3: ">> \o e.Message)
    ELSE e

\* upload_to_s3 raises and upload_document ends in its except branch
\* (admin.py:258-260): os.remove at admin.py:244 is not reached
UploadToS3Raises(e) ==
    /\ pc = "uploading"
    /\ pc' = "idle"
    /\ Respond(500, [error |-> <<"Upload failed: ">> \o UploadToS3Error(e).Message])
    /\ AdminFrame
    /\ UNCHANGED <<locals, session, request, files, bucket>>

\* a second passes
Tick ==
    /\ pc = "idle"
    /\ now < MaxClock
    /\ now' = now + 1
    /\ ConfigUnchanged
    /\ UNCHANGED <<pc, args, locals, params, first_error, model_arn_attempts, i, last_error,
                   retry_success, response, sent, result, raised, search_history,
                   session, http, files, bucket, request>>

LoginData ==
    {NoBody, [user |-> <<"a">>], [password |-> <<>>], [password |-> <<"p", "w">>],
     [password |-> PasswordFile], [password |-> <<"n", "o">>],
     [password |-> Filler(MaxPasswordLength + 1)]}

UploadFilenames ==
    {<<>>, <<"a">>, <<"a", ".", "e", "x", "e">>, <<"a", ".", "p", "d", "f">>,
     <<".", ".", "/", "a", ".", "p", "d", "f">>,
     Filler(MaxFilenameLength - 3) \o <<".", "p", "d", "f">>}

UploadRequests ==
    {[path |-> "/admin/upload", is_json |-> FALSE, accept_json |-> a, files |-> f] :
        a \in BOOLEAN,
        f \in {[none |-> TRUE]} \cup
              {[file |-> [filename |-> n, size |-> 1]] : n \in UploadFilenames} \cup
              {[file |-> [filename |-> <<"a", ".", "p", "d", "f">>, size |-> MAX_FILE_SIZE + 1]]}}
    \cup {[path |-> "/admin/upload", is_json |-> TRUE, accept_json |-> TRUE,
           files |-> [none |-> TRUE]]}

DashboardRequests ==
    {[path |-> "/admin/dashboard", is_json |-> j, accept_json |-> a] :
        j \in BOOLEAN, a \in BOOLEAN}

UploadErrors ==
    {Exc("ClientError", "AccessDenied", <<"Access Denied">>),
     Exc("ClientError", "InvalidClientTokenId",
         <<"The security token included in the request is", " ", "INVALID", ".">>)}
    \cup OtherErrors

NextAdmin ==
    \/ \E data \in LoginData, password_file_exists \in BOOLEAN :
            admin_authenticate(data, password_file_exists)
    \/ admin_logout
    \/ \E req \in DashboardRequests : admin_dashboard(req)
    \/ \E req \in UploadRequests : upload_document(req)
    \/ UploadToS3Returns
    \/ \E e \in UploadErrors : UploadToS3Raises(e)
    \/ Tick

SpecAdmin == InitAsk /\ [][NextAdmin]_vars

-----------------------------------------------------------------------------
(* Properties *)

MaxAlternatives == 3

\* the model identifiers the provider received in this invocation, in order
SentArns ==
    [k \in 1..Len(sent) |->
        sent[k].retrieveAndGenerateConfiguration.knowledgeBaseConfiguration.modelArn]

\* a ValidationException whose message names 'invalid', 'model' or 'identifier'
IsModelValidation(e) ==
    /\ e.type = "ClientError"
    /\ e.Code = "ValidationException"
    /\ \E w \in {"invalid", "model", "identifier"} : Contains(Lower(e.Message), <<w>>)

IsAuthError(e) == e.type = "ClientError" /\ e.Code \in AuthCodes

\* C1: when the first provider call fails with a credential/signature error
\* code, query() has raised, exactly one provider call was made and no
\* alternative identifier was enumerated or sent.
C1_AuthFailsImmediately ==
    IsAuthError(first_error) =>
        /\ pc = "raised"
        /\ Len(sent) = 1
        /\ model_arn_attempts = <<>>
        /\ result = NoResult

C1_Witness ==
    /\ pc = "raised"
    /\ first_error.Code = "UnrecognizedClientException"
    /\ Contains(Lower(first_error.Message), <<"invalid">>)
    /\ Contains(Lower(model_id), <<"claude-3-5-sonnet">>)

\* C2: when the provider call fails with a credential/signature error code,
\* the error query() raises is the authentication error with the remediation
\* hint listing the credential-configuration methods.
C2_AuthErrorCarriesHint ==
    (pc = "raised" /\ IsAuthError(first_error)) =>
        /\ StartsWith(raised.Message, <<"AWS Authentication Error (", first_error.Code>>)
        /\ \A k \in 1..4 : Contains(raised.Message, <<CredentialMethods[k]>>)

\* C3: when the first attempt fails with a model-validation error and a later
\* candidate succeeds, the model recorded in result.metadata is the
\* alternative identifier that succeeded, not the configured model id.
C3_MetadataNamesModelUsed ==
    (pc = "returned" /\ IsModelValidation(first_error)) =>
        /\ result.metadata.model = SentArns[Len(sent)]
        /\ result.metadata.model # model_id

\* C4: retrying stops at the first successful provider call: once a retry
\* has succeeded query() has returned, what was sent is the first identifier
\* followed by the alternatives up to the one that succeeded, and the result
\* is built from that response.
C4_RetryStopsAtFirstSuccess ==
    retry_success =>
        /\ pc = "returned"
        /\ Len(sent) = i + 1
        /\ \A k \in 1..i : SentArns[k + 1] = model_arn_attempts[k]
        /\ result.answer =
              Get(Get(response, "output", [none |-> TRUE]), "text", <<"No answer found">>)
        /\ result.metadata.sources_count = Len(Sources(Get(response, "citations", <<>>)))

C4_Witness ==
    /\ pc = "returned"
    /\ retry_success
    /\ i < Len(model_arn_attempts)
    /\ "output" \in DOMAIN response

\* C5: the model identifiers sent to the provider within one query() call
\* are pairwise different.
C5_NoDuplicateIdentifier ==
    \A a, b \in 1..Len(sent) : a # b => SentArns[a] # SentArns[b]

C5_Witness ==
    /\ pc = "raised"
    /\ Len(sent) = 3
    /\ SentArns[1] = FoundationModelArn(model_id)

\* C6 as stated: when every alternative fails, the raised error is the
\* first-attempt error augmented with the list of the identifiers tried.
C6_ErrorListsIdentifiers ==
    (pc = "raised" /\ IsModelValidation(first_error)) =>
        /\ Contains(raised.Message, AwsErrorText(first_error.Code, first_error.Message))
        /\ \A k \in 2..Len(sent) : Contains(raised.Message, SentArns[k])

\* C6 as amended: when every alternative fails, the raised error carries the
\* code and message of the first-attempt error followed by the number of
\* alternative identifiers that were tried.
C6_ErrorCountsIdentifiers ==
    (pc = "raised" /\ IsModelValidation(first_error)) =>
        /\ raised.type = "Exception"
        /\ Contains(raised.Message, AwsErrorText(first_error.Code, first_error.Message))
        /\ Contains(raised.Message,
                    <<". Tried ", ToString(Len(sent) - 1),
                      " alternative model formats, all failed.">>)

C6_Witness ==
    /\ pc = "raised"
    /\ IsModelValidation(first_error)
    /\ Len(sent) = 3
    /\ last_error.Code = "UnrecognizedClientException"

\* a model id with no version suffix, outside the claude-3-5-sonnet family,
\* that is neither a resource name nor padded with whitespace
PlainModelId(m) ==
    /\ Truthy(m)
    /\ Strip(m) = m
    /\ ~Contains(m, <<":">>)
    /\ ~Contains(Lower(m), <<"claude-3-5-sonnet">>)

C8_RequestFullyPopulated ==
    \A k \in 1..Len(sent) :
        /\ "input" \in DOMAIN sent[k]
        /\ Strip(sent[k].input.text) # <<>>
        /\ "retrieveAndGenerateConfiguration" \in DOMAIN sent[k]
        /\ LET c == sent[k].retrieveAndGenerateConfiguration.knowledgeBaseConfiguration
           IN  /\ Strip(c.knowledgeBaseId) # <<>>
               /\ Strip(c.modelArn) # <<>>
               /\ c.retrievalConfiguration.vectorSearchConfiguration.numberOfResults = 5
               /\ c.orchestrationConfiguration.promptTemplate.textPromptTemplate
                      = OrchestrationTemplate
               /\ c.generationConfiguration.promptTemplate.textPromptTemplate
                      = GenerationTemplate

C8_Witness ==
    /\ Len(sent) = 2
    /\ "sessionId" \in DOMAIN sent[2]
    /\ args.conversation_history # <<>>
    /\ args.use_advanced_prompts

\* the pattern [0-9A-Za-z._:-]+ matched against the whole session id
MatchesSessionPattern(session_id) ==
    /\ session_id # None
    /\ session_id # <<>>
    /\ \A k \in 1..Len(session_id) : SessionIdChar(session_id[k])

\* C9: a supplied session id that does not match [0-9A-Za-z._:-]+ is never
\* sent (the request carries no sessionId); one that matches is sent
\* unchanged.
C9_OnlyWellFormedSessionIdSent ==
    sent # <<>> =>
        IF MatchesSessionPattern(args.session_id)
        THEN "sessionId" \in DOMAIN sent[1] /\ sent[1].sessionId = args.session_id
        ELSE "sessionId" \notin DOMAIN sent[1]

\* C10: on a successful query(), result.session_id is the provider-returned
\* sessionId when the response carries one, and otherwise the session id
\* that was sent in the request.
C10_SessionIdPrefersProvider ==
    pc = "returned" =>
        LET last == sent[Len(sent)] IN
        IF "sessionId" \in DOMAIN response /\ response.sessionId # <<>>
        THEN result.session_id = response.sessionId
        ELSE IF "sessionId" \in DOMAIN last
             THEN result.session_id = last.sessionId
             ELSE result.session_id = None

C10_Witness ==
    /\ pc = "returned"
    /\ "sessionId" \in DOMAIN sent[1]
    /\ "sessionId" \in DOMAIN response
    /\ response.sessionId # <<>>
    /\ response.sessionId # sent[1].sessionId

\* the question is empty or consists of whitespace only
BlankText(t) == t = None \/ Strip(t) = <<>>

\* C11: a successful query() made with no session id and an empty history
\* returns a non-empty result.session_id.
C11_NewSessionIdNonEmpty ==
    (pc = "returned" /\ args.session_id = None /\ args.conversation_history = <<>>) =>
        (result.session_id # None /\ result.session_id # <<>>)

QuestionValidationTexts ==
    {"Question must be a non-empty string", "Question cannot be empty or whitespace only"}

ConfigurationTexts ==
    {"Knowledge Base ID not configured",
     "Knowledge Base ID is not configured or invalid",
     "Model ID is not configured or invalid"}

C14_OtherErrorsNotRetried ==
    (first_error.type = "ClientError" /\ ~IsModelValidation(first_error)) =>
        /\ pc = "raised"
        /\ Len(sent) = 1
        /\ model_arn_attempts = <<>>
        /\ Contains(raised.Message, <<first_error.Code>>)
        /\ Contains(raised.Message, first_error.Message)

C14_Witness ==
    /\ pc = "raised"
    /\ first_error.Code = "ValidationException"
    /\ first_error.Message = <<"Rate exceeded">>
    /\ model_id = SonnetV2Id

\* the configured id without its trailing version suffix (the part after
\* its last ':')
RECURSIVE WithoutVersionSuffix(_)
WithoutVersionSuffix(m) ==
    IF ~Contains(m, <<":">>) THEN m
    ELSE IF m[Len(m)] = ":" THEN SubSeq(m, 1, Len(m) - 1)
    ELSE WithoutVersionSuffix(SubSeq(m, 1, Len(m) - 1))

\* the candidate appended unless it was already tried or already listed
AppendNew(listed, candidate) ==
    IF candidate = SentArns[1] \/ \E k \in 1..Len(listed) : listed[k] = candidate
    THEN listed
    ELSE Append(listed, candidate)

SonnetFamily(m) == Contains(Lower(m), <<"claude-3-5-sonnet">>)

\* (a), then (b) for the family only, then (c)
OrderedAlternatives ==
    LET a == AppendNew(<<>>, FoundationModelArn(model_id))
        b == IF SonnetFamily(model_id) THEN AppendNew(a, FoundationModelArn(alt_model)) ELSE a
    IN  AppendNew(b, FoundationModelArn(WithoutVersionSuffix(model_id)))

\* C15: after a first-attempt model ValidationException the alternatives
\* are, in this order, the foundation-model form of the configured id, for
\* the sonnet family the sibling's foundation-model form, and the
\* foundation-model form of the configured id without its trailing version
\* suffix, each left out only when already tried or already listed.
C15_AlternativesInOrder ==
    (sent # <<>> /\ IsModelValidation(first_error)) =>
        model_arn_attempts = OrderedAlternatives

\* C16 as stated: the first identifier is the configured id unchanged when
\* it is a resource name with an inference-profile marker, and in every
\* other case the synthesized foundation-model form of the configured id
\* verbatim.
C16_FirstIdentifierByMarker ==
    sent # <<>> =>
        SentArns[1] =
            IF StartsWith(model_id, ArnPrefix) /\ Contains(model_id, <<":", "inference-profile/">>)
            THEN model_id
            ELSE <<"arn", ":", "aws", ":", "bedrock", ":">> \o region
                     \o <<":", ":", "foundation-model/">> \o model_id

\* C16: the first identifier is the configured id when that id starts with
\* arn:aws:bedrock: (with or without an inference-profile marker), and
\* otherwise the synthesized foundation-model form of the configured id; in
\* both cases trailing whitespace is trimmed off.
C16_FirstIdentifierByPrefix ==
    sent # <<>> =>
        SentArns[1] =
            IF StartsWith(model_id, <<"arn", ":", "aws", ":", "bedrock", ":">>)
            THEN RStrip(model_id)
            ELSE <<"arn", ":", "aws", ":", "bedrock", ":">> \o region
                     \o <<":", ":", "foundation-model/">> \o RStrip(model_id)

C16_Witness ==
    /\ sent # <<>>
    /\ model_id = SonnetV1FoundationArn
    /\ SentArns[1] = model_id

\* the text the provider received in the call that succeeded
SentText == sent[Len(sent)].input.text

\* C19: on a successful query(), result.enhanced_question is populated (with
\* the text sent) exactly when the text sent differs from the trimmed
\* original question, and is absent whenever the history is empty or advanced
\* prompts are disabled.
C19_EnhancedQuestionIffRewritten ==
    pc = "returned" =>
        /\ (result.enhanced_question # None) <=> (SentText # Strip(args.question))
        /\ result.enhanced_question # None => result.enhanced_question = SentText
        /\ (args.conversation_history = <<>> \/ ~args.use_advanced_prompts) =>
              /\ result.enhanced_question = None
              /\ SentText = Strip(args.question)

C19_Witness ==
    /\ pc = "returned"
    /\ args.conversation_history # <<>>
    /\ args.use_advanced_prompts
    /\ result.enhanced_question # None
    /\ result.enhanced_question # Strip(args.question)

\* the retrieved references of the citations, citation by citation
RECURSIVE RetrievedReferences(_)
RetrievedReferences(citations) ==
    IF citations = <<>> THEN <<>>
    ELSE (IF "retrievedReferences" \in DOMAIN Head(citations)
          THEN Head(citations).retrievedReferences ELSE <<>>)
         \o RetrievedReferences(Tail(citations))

\* C20: on a successful query(), result.sources has one entry per retrieved
\* reference of the provider response, in citation order and then reference
\* order, each with the reference's text, its score or 0, its type or
\* 'text', and metadata.sources_count is the length of result.sources.
C20_OneSourcePerReference ==
    pc = "returned" =>
        LET refs == RetrievedReferences(
                        IF "citations" \in DOMAIN response THEN response.citations ELSE <<>>)
        IN  /\ Len(result.sources) = Len(refs)
            /\ \A n \in 1..Len(refs) :
                  /\ result.sources[n].content = refs[n].content.text
                  /\ result.sources[n].score =
                        IF "score" \in DOMAIN refs[n] THEN refs[n].score ELSE 0
                  /\ result.sources[n].type =
                        IF "type" \in DOMAIN refs[n].content
                        THEN refs[n].content.type ELSE <<"text">>
            /\ result.metadata.sources_count = Len(result.sources)

C20_Witness ==
    /\ pc = "returned"
    /\ "citations" \in DOMAIN response
    /\ Len(response.citations) = 3
    /\ Len(result.sources) = 3
    /\ result.sources[2].score = 0
    /\ result.sources[3].type = <<"IMAGE">>

\* some word of the question is, in lower case, one of the keywords
Matches(question, keywords) ==
    \E k \in 1..Len(question) : LowerAtom(question[k]) \in keywords

\* C17: detect_query_type maps every question to one of general, technical,
\* summary, comparison: technical when a technical keyword matches, whatever
\* else matches; otherwise summary when a summary keyword matches; otherwise
\* comparison when a comparison keyword matches; general when none matches.
C17_ClassificationPrecedence ==
    pc = "detected" =>
        LET q == args.question
            technical == Matches(q, {"how", "implement", "configure", "setup",
                                     "technical", "specification"})
            summary == Matches(q, {"summarize", "summary", "overview", "brief"})
            comparison == Matches(q, {"compare", "difference", "versus", "vs", "better"})
        IN  /\ result.query_type \in
                  {<<"general">>, <<"technical">>, <<"summary">>, <<"comparison">>}
            /\ technical => result.query_type = <<"technical">>
            /\ (~technical /\ summary) => result.query_type = <<"summary">>
            /\ (~technical /\ ~summary /\ comparison) => result.query_type = <<"comparison">>
            /\ (~technical /\ ~summary /\ ~comparison) => result.query_type = <<"general">>

C17_Witness ==
    /\ pc = "detected"
    /\ args.question = <<"summary", "versus", "How">>
    /\ result.query_type = <<"technical">>

EndsWith(s, suffix) ==
    /\ Len(s) >= Len(suffix)
    /\ SubSeq(s, Len(s) - Len(suffix) + 1, Len(s)) = suffix

\* C18: for a non-empty history enhance_query returns a text that ends with
\* the current question and renders the last 3 exchanges of the history (all
\* of them when there are fewer) and no earlier one; for an empty history it
\* returns the question unchanged.
C18_LastThreeExchangesRendered ==
    pc = "enhanced" =>
        LET q == args.question
            h == args.conversation_history
            e == result.enhanced
        IN  IF h = <<>> THEN e = q
            ELSE /\ EndsWith(e, q)
                 /\ Cardinality({k \in 1..Len(e) : e[k] = "Previous question: "}) <= 3
                 /\ \A k \in 1..Len(h) :
                       Contains(e, <<"Previous question: ">> \o h[k].question \o <<"\n">>)
                           <=> k > Len(h) - 3

C18_Witness ==
    /\ pc = "enhanced"
    /\ Len(args.conversation_history) > 3
    /\ args.question # <<>>
    /\ Cardinality({k \in 1..Len(result.enhanced) :
                        result.enhanced[k] = "Previous question: "}) = 3

\* C22: no step of query() changes the engine's configuration (region,
\* knowledge-base id, model id, max tokens, temperature), whether the call
\* failed, succeeded at once or succeeded with an alternative identifier, and
\* every call's first attempt uses the identifier derived from the configured
\* model id.
C22_ConfigurationNeverChanges ==
    [][/\ region' = region
       /\ kb_id' = kb_id
       /\ model_id' = model_id
       /\ max_tokens' = max_tokens
       /\ temperature' = temperature
       /\ (pc = "idle" /\ pc' = "first_call") =>
             SentArns'[1] = IF StartsWith(model_id, ArnPrefix)
                            THEN RStrip(model_id)
                            ELSE FoundationModelArn(RStrip(model_id))]_vars

C22_Witness ==
    /\ pc = "returned"
    /\ Len(sent) > 1
    /\ model_id = SonnetV2Id
    /\ SentArns[Len(sent)] # FoundationModelArn(model_id)
    /\ result.metadata.model = SonnetV2Id

\* what query(a) sends as its k-th request when it runs alone: the text,
\* session id and configuration computed from a and the engine, with the
\* first identifier for k = 1 and the (k-1)-th alternative after it
RequestAlone(a, k) ==
    LET q == Strip(a.question)
        first == BuildParams(EnhancedQuestion(q, a.conversation_history,
                                              a.use_advanced_prompts),
                             ValidatedSessionId(a.session_id))
        alternatives ==
            ModelArnAttempts(first.retrieveAndGenerateConfiguration
                                  .knowledgeBaseConfiguration.modelArn)
    IN  IF k = 1 THEN first ELSE WithModelArn(first, alternatives[k - 1])

\* what query(a) returns alone from the response resp to its k-th request
ResultAlone(a, k, resp) ==
    LET q == Strip(a.question)
        enhanced_question ==
            EnhancedQuestion(q, a.conversation_history, a.use_advanced_prompts)
    IN  NormalizeWith([question |-> q,
                       enhanced_question |-> enhanced_question,
                       query_type |-> QueryType(q, a.query_type, a.use_advanced_prompts)],
                      resp, RequestAlone(a, k))

\* what query(a) raises alone: the validation error, or the error made from
\* its own first provider failure
RaisedAlone(a, first) ==
    IF PreCallError(a.question) # NoException
    THEN {OuterExcept(PreCallError(a.question))}
    ELSE IF first = NoException
    THEN {OuterExcept(e) : e \in OtherErrors}
    ELSE IF IsModelValidation(first)
    THEN {OuterExcept(ExhaustedError(first.Code, first.Message,
              ModelArnAttempts(RequestAlone(a, 1).retrieveAndGenerateConfiguration
                                   .knowledgeBaseConfiguration.modelArn)))}
    ELSE {OuterExcept(NotRetriedError(first.Code, first.Message))}

\* the variables of call c
Frame(c) ==
    <<pc[c], args[c], locals[c], params[c], first_error[c], model_arn_attempts[c], i[c],
      last_error[c], retry_success[c], response[c], sent[c], result[c], raised[c]>>

\* C21: two query() calls running concurrently on one engine do not affect
\* each other: under every interleaving each call's requests (text, session
\* id, sequence of model identifiers) and its result or error are those of
\* the same call run alone with the same provider outcomes, and a step of
\* one call changes nothing of the other.
C21_ConcurrentCallsIndependent ==
    /\ [](\A c \in Calls :
            pc[c] # "idle" =>
              /\ \A k \in 1..Len(sent[c]) : sent[c][k] = RequestAlone(args[c], k)
              /\ pc[c] = "returned" =>
                    result[c] = ResultAlone(args[c], Len(sent[c]), response[c])
              /\ pc[c] = "raised" =>
                    raised[c] \in RaisedAlone(args[c], first_error[c]))
    /\ [][\A c, d \in Calls : (c # d /\ Frame(c)' # Frame(c)) => Frame(d)' = Frame(d)]_vars

C21_Witness ==
    /\ pc[1] = "returned"
    /\ pc[2] = "retry_call"
    /\ Len(sent[1]) = 3
    /\ Len(sent[2]) = 2
    /\ args[1] # args[2]

\* C23: an invocation of query() ends either returned, with a complete
\* result built from the one provider response that succeeded and no error,
\* or raised, with an error and no result; a provider failure is followed by
\* a successful retry of the same invocation or by the raised error.
C23_ResultOrError ==
    /\ pc \in {"idle", "first_call", "retry_call"} =>
          (result = NoResult /\ raised = NoException)
    /\ pc = "returned" =>
          /\ raised = NoException
          /\ DOMAIN result = {"answer", "sources", "session_id", "query_type",
                              "enhanced_question", "metadata"}
          /\ result.answer =
                IF "output" \in DOMAIN response /\ "text" \in DOMAIN response.output
                THEN response.output.text ELSE <<"No answer found">>
          /\ first_error # NoException => (retry_success /\ Len(sent) > 1)
    /\ pc = "raised" =>
          /\ result = NoResult
          /\ raised.type \in {"Exception", "ValueError"}
          /\ raised.Message # <<>>
    /\ (first_error # NoException \/ last_error # NoException) =>
          pc \in {"retry_call", "returned", "raised"}

C23_Witness ==
    /\ pc = "returned"
    /\ first_error # NoException
    /\ last_error # NoException
    /\ Len(sent) = 3

\* the exchanges stored for the session, oldest first
StoredExchanges(session_id) ==
    LET rows == SelectSeq(search_history, LAMBDA row : row.session_id = session_id) IN
    [k \in 1..Len(rows) |-> [question |-> rows[k].question, answer |-> rows[k].answer]]

\* C24: the conversation history /api/ask passes to query() for a session is
\* the session's most recent stored exchanges, at most 5, the most recent
\* one last.
C24_HistoryMostRecentLast ==
    (pc = "querying" /\ args.session_id # None) =>
        LET stored == StoredExchanges(args.session_id) IN
        args.conversation_history =
            IF Len(stored) <= 5 THEN stored
            ELSE SubSeq(stored, Len(stored) - 4, Len(stored))

\* the last request to /api/ask was forwarded to query()
Forwarded == pc = "querying" \/ (http # NoHttp /\ http.status # 400)

\* C25: /api/ask enforces the 1-5000 character bound on the trimmed question:
\* a submitted question whose trimmed length is between 1 and 5000 and which
\* holds no suspicious pattern is forwarded to query(), and a submitted
\* question longer than 5000 characters is answered with the 400 'too long'
\* error and not forwarded.
C25_LengthBoundEnforced ==
    (request # NoRequest /\ request.data # NoBody /\ "question" \in DOMAIN request.data) =>
        LET trimmed == Strip(request.data.question) IN
        /\ (Len(trimmed) \in 1..5000 /\ ~Suspicious(trimmed)) => Forwarded
        /\ Len(trimmed) > 5000 =>
              /\ ~Forwarded
              /\ http = [status |-> 400,
                         body |-> [error |-> "Question is too long (max 5000 characters)"]]

QueryTypeEnum == {<<"general">>, <<"technical">>, <<"summary">>, <<"comparison">>}

\* C26 as stated: the query_type of every result is one of general,
\* technical, summary, comparison, whatever query_type the caller supplied.
C26_QueryTypeAlwaysInEnum ==
    pc = "returned" => result.query_type \in QueryTypeEnum

\* C26: the query_type of a result is the value the caller supplied when that
\* value is not empty, whether or not it is one of general, technical,
\* summary, comparison; when the caller supplied none (or an empty one) it is
\* the classifier's result for the trimmed question if advanced prompts are
\* enabled and general if they are not. It is thus one of the four whenever
\* the caller supplied none or one of the four.
C26_QueryTypeOfResult ==
    pc = "returned" =>
        /\ Truthy(args.query_type) => result.query_type = args.query_type
        /\ (~Truthy(args.query_type) /\ args.use_advanced_prompts) =>
              result.query_type = detect_query_type(Strip(args.question))
        /\ (~Truthy(args.query_type) /\ ~args.use_advanced_prompts) =>
              result.query_type = <<"general">>
        /\ args.query_type \in QueryTypeEnum \cup {None, <<>>} =>
              result.query_type \in QueryTypeEnum

C26_Witness ==
    /\ pc = "returned"
    /\ args.query_type = <<"bogus">>
    /\ result.query_type = <<"bogus">>

\* a request but for its model identifier
ExceptModelArn(p) ==
    [p EXCEPT !.retrieveAndGenerateConfiguration.knowledgeBaseConfiguration.modelArn = <<>>]

\* C27: the attempts of one query() are strictly sequential and differ only
\* in the model identifier: while a provider call is in flight it is the last
\* one sent and no attempt has succeeded; a further call is sent only in the
\* step in which the call in flight fails, one at a time; and every request
\* sent equals the first one (input text, session id, knowledge-base id,
\* numberOfResults, both prompt templates) but for the model identifier.
C27_AttemptsSequentialAndAlike ==
    /\ [](/\ \A k \in 1..Len(sent) : ExceptModelArn(sent[k]) = ExceptModelArn(sent[1])
          /\ pc = "first_call" => Len(sent) = 1
          /\ pc = "retry_call" => (Len(sent) = i + 1 /\ ~retry_success))
    /\ [][(sent # <<>> /\ sent' # sent /\ sent' # <<>>) =>
            /\ pc \in {"first_call", "retry_call"}
            /\ sent' = Append(sent, params')
            /\ response' = NoResponse
            /\ ~retry_success'
            /\ pc = "first_call" => (first_error = NoException /\ first_error' # NoException)
            /\ pc = "retry_call" => last_error' # NoException]_vars

C27_Witness ==
    /\ Len(sent) = 4
    /\ "sessionId" \in DOMAIN sent[1]
    /\ sent[1].input.text # locals.question
    /\ sent[4] # sent[1]
    /\ sent[3] # sent[2]

\* C28: inside the loop over the alternative identifiers a failed retry,
\* whatever its error, does not end the loop: when a retry fails and a
\* candidate is left, the next enumerated candidate is sent and nothing is
\* raised; the loop ends only when a retry succeeds (query() returns) or when
\* the last candidate has failed (query() raises).
C28_FailedRetryContinues ==
    [][pc = "retry_call" =>
        IF retry_success' THEN pc' = "returned"
        ELSE IF i < Len(model_arn_attempts)
             THEN /\ pc' = "retry_call"
                  /\ i' = i + 1
                  /\ Len(sent') = Len(sent) + 1
                  /\ sent'[Len(sent')].retrieveAndGenerateConfiguration.knowledgeBaseConfiguration.modelArn
                        = model_arn_attempts[i + 1]
                  /\ raised' = NoException
             ELSE pc' = "raised" /\ i = Len(model_arn_attempts)]_vars

C28_Witness ==
    /\ pc = "retry_call"
    /\ i = 3
    /\ Len(sent) = 4
    /\ IsAuthError(last_error)

\* the answers of admin_required to a request without admin_logged_in
Denied(h) ==
    \/ h = [status |-> 401, body |-> [error |-> "Admin authentication required"]]
    \/ h = [status |-> 302, body |-> [location |-> "/admin"]]

\* a request to a protected route is received in this step
ProtectedRequest ==
    /\ pc = "idle"
    /\ now' = now
    /\ request' # NoRequest
    /\ request'.path \in ProtectedPaths

\* C29: a handler wrapped by admin_required runs only while the session has
\* admin_logged_in set. No session has it before a login; a request to a
\* protected route received without it is answered with 401 or with the
\* redirect to /admin and the handler body does not run (no file saved,
\* nothing uploaded, no call of upload_to_s3 started); with it, the body
\* runs. The session gets it only by a login with the stored password and has
\* lost it after every logout.
C29_ProtectedOnlyWhileLoggedIn ==
    /\ ~LoggedIn(session)
    /\ [](pc = "uploading" => LoggedIn(session))
    /\ [][/\ (ProtectedRequest /\ ~LoggedIn(session)) =>
                /\ Denied(http')
                /\ pc' = "idle"
                /\ UNCHANGED <<session, files, bucket, locals>>
          /\ (ProtectedRequest /\ LoggedIn(session)) => ~Denied(http')
          /\ (~LoggedIn(session) /\ LoggedIn(session')) =>
                /\ request'.path = "/admin/login"
                /\ request'.data.password = Strip(PasswordFile)
                /\ http'.status = 200
          /\ (LoggedIn(session) /\ ~LoggedIn(session')) => request'.path = "/admin/logout"
          /\ (pc = "idle" /\ now' = now /\ request' # NoRequest
                /\ request'.path = "/admin/logout") =>
                ~LoggedIn(session')]_vars

\* after an upload made while logged in and a logout, a request to a
\* protected route was turned away
C29_Witness ==
    /\ bucket # {}
    /\ ~LoggedIn(session)
    /\ request.path = "/admin/upload"
    /\ "file" \in DOMAIN request.files
    /\ Denied(http)
    /\ files = {}

\* C30: when upload_document ends a request in which it saved a temporary
\* file, that file does not exist any more, whether upload_to_s3 returned or
\* raised.
C30_TempFileRemoved ==
    [][(pc = "uploading" /\ pc' = "idle") => locals.temp_path \notin files']_vars

====
